---------------------------- MODULE Spec2Model ----------------------------
(***************************************************************************)
(* Parent/Guardian Feedback Builder (parent_feedback_app.py).              *)
(*                                                                         *)
(* The program is a Streamlit script: a form collects classroom notes,     *)
(* the form handler validates the two required fields and calls            *)
(* build_feedback, which composes an email-style and an SMS-style text.    *)
(*                                                                         *)
(* Text is modelled as a sequence of characters (one-character strings),   *)
(* so that length, trimming, joining, truncation and lower-casing are      *)
(* computed the way the Python code computes them.                         *)
(*                                                                         *)
(* Two specifications:                                                     *)
(*   Spec         the app: the form is submitted or the script re-runs;    *)
(*   SpecCompose  build_feedback called directly on an argument record.    *)
(***************************************************************************)
EXTENDS Integers, Sequences, FiniteSets

VARIABLES
    inputs,     \* the widget values of the form / the arguments of the call
    status,     \* what the last run showed: "info", "error", "success";
                \* or, for a direct call, "pending" / "returned"
    calls,      \* how many times the last run called build_feedback
    messages,   \* the dict build_feedback returned (NoMessages if none)
    downloads   \* the file names of the download buttons the last run offered

vars == <<inputs, status, calls, messages, downloads>>

(***************************************************************************)
(* Characters.                                                             *)
(***************************************************************************)

\* U+2014 EM DASH, one character of the text.
EmDash == "--"

\* The characters str.strip() removes (those that occur in the model).
Whitespace == {" ", "\t", "\n"}

UpperCase ==
    <<"A", "B", "C", "D", "E", "F", "G", "H", "I", "J", "K", "L", "M",
      "N", "O", "P", "Q", "R", "S", "T", "U", "V", "W", "X", "Y", "Z">>

LowerCase ==
    <<"a", "b", "c", "d", "e", "f", "g", "h", "i", "j", "k", "l", "m",
      "n", "o", "p", "q", "r", "s", "t", "u", "v", "w", "x", "y", "z">>

Digits == <<"0", "1", "2", "3", "4", "5", "6", "7", "8", "9">>

(***************************************************************************)
(* The string literals of the source.                                      *)
(***************************************************************************)

\* "your student"
S_your_student ==
    <<"y", "o", "u", "r", " ", "s", "t", "u", "d", "e", "n", "t">>

\* "Hi there (em dash) just a quick update about "
S_warm_pre ==
    <<"H", "i", " ", "t", "h", "e", "r", "e", " ", EmDash, " ", "j", "u", "s", "t", " ", "a",
      " ", "q", "u", "i", "c", "k", " ", "u", "p", "d", "a", "t", "e", " ", "a", "b", "o", "u",
      "t", " ">>

\* " from today."
S_warm_post ==
    <<" ", "f", "r", "o", "m", " ", "t", "o", "d", "a", "y", ".">>

\* "Hello, sharing a brief update about "
S_neutral_pre ==
    <<"H", "e", "l", "l", "o", ",", " ", "s", "h", "a", "r", "i", "n", "g", " ", "a", " ", "b",
      "r", "i", "e", "f", " ", "u", "p", "d", "a", "t", "e", " ", "a", "b", "o", "u", "t", " ">>

\* " from today."
S_neutral_post ==
    <<" ", "f", "r", "o", "m", " ", "t", "o", "d", "a", "y", ".">>

\* "Good day. I'm writing to share an update regarding "
S_formal_pre ==
    <<"G", "o", "o", "d", " ", "d", "a", "y", ".", " ", "I", "'", "m", " ", "w", "r", "i", "t",
      "i", "n", "g", " ", "t", "o", " ", "s", "h", "a", "r", "e", " ", "a", "n", " ", "u", "p",
      "d", "a", "t", "e", " ", "r", "e", "g", "a", "r", "d", "i", "n", "g", " ">>

\* "."
S_formal_post ==
    <<".">>

\* "Thanks for partnering with me!"
S_warm_closing ==
    <<"T", "h", "a", "n", "k", "s", " ", "f", "o", "r", " ", "p", "a", "r", "t", "n", "e", "r",
      "i", "n", "g", " ", "w", "i", "t", "h", " ", "m", "e", "!">>

\* "Thank you for your attention."
S_neutral_closing ==
    <<"T", "h", "a", "n", "k", " ", "y", "o", "u", " ", "f", "o", "r", " ", "y", "o", "u", "r",
      " ", "a", "t", "t", "e", "n", "t", "i", "o", "n", ".">>

\* "Thank you for your continued partnership."
S_formal_closing ==
    <<"T", "h", "a", "n", "k", " ", "y", "o", "u", " ", "f", "o", "r", " ", "y", "o", "u", "r",
      " ", "c", "o", "n", "t", "i", "n", "u", "e", "d", " ", "p", "a", "r", "t", "n", "e", "r",
      "s", "h", "i", "p", ".">>

\* " arrived "
S_arrived ==
    <<" ", "a", "r", "r", "i", "v", "e", "d", " ">>

\* "minute"
S_minute ==
    <<"m", "i", "n", "u", "t", "e">>

\* " late. I helped them get settled and connected to the task"
S_late_helped ==
    <<" ", "l", "a", "t", "e", ".", " ", "I", " ", "h", "e", "l", "p", "e", "d", " ", "t", "h",
      "e", "m", " ", "g", "e", "t", " ", "s", "e", "t", "t", "l", "e", "d", " ", "a", "n", "d",
      " ", "c", "o", "n", "n", "e", "c", "t", "e", "d", " ", "t", "o", " ", "t", "h", "e", " ",
      "t", "a", "s", "k">>

\* "In "
S_In ==
    <<"I", "n", " ">>

\* "In class"
S_In_class ==
    <<"I", "n", " ", "c", "l", "a", "s", "s">>

\* "we worked on "
S_we_worked_on ==
    <<"w", "e", " ", "w", "o", "r", "k", "e", "d", " ", "o", "n", " ">>

\* "we continued building core skills"
S_we_continued ==
    <<"w", "e", " ", "c", "o", "n", "t", "i", "n", "u", "e", "d", " ", "b", "u", "i", "l", "d",
      "i", "n", "g", " ", "c", "o", "r", "e", " ", "s", "k", "i", "l", "l", "s">>

\* "Behavior noted: "
S_Behavior_noted ==
    <<"B", "e", "h", "a", "v", "i", "o", "r", " ", "n", "o", "t", "e", "d", ":", " ">>

\* "Mood observed: "
S_Mood_observed ==
    <<"M", "o", "o", "d", " ", "o", "b", "s", "e", "r", "v", "e", "d", ":", " ">>

\* "Strengths I noticed"
S_Strengths ==
    <<"S", "t", "r", "e", "n", "g", "t", "h", "s", " ", "I", " ", "n", "o", "t", "i", "c", "e",
      "d">>

\* "Supports provided"
S_Supports ==
    <<"S", "u", "p", "p", "o", "r", "t", "s", " ", "p", "r", "o", "v", "i", "d", "e", "d">>

\* "Next steps"
S_Next_steps ==
    <<"N", "e", "x", "t", " ", "s", "t", "e", "p", "s">>

\* "Homework assigned today"
S_Homework ==
    <<"H", "o", "m", "e", "w", "o", "r", "k", " ", "a", "s", "s", "i", "g", "n", "e", "d", " ",
      "t", "o", "d", "a", "y">>

\* "Outstanding/late work"
S_Outstanding ==
    <<"O", "u", "t", "s", "t", "a", "n", "d", "i", "n", "g", "/", "l", "a", "t", "e", " ", "w",
      "o", "r", "k">>

\* "If helpful, I'm happy to connect via "
S_connect_via ==
    <<"I", "f", " ", "h", "e", "l", "p", "f", "u", "l", ",", " ", "I", "'", "m", " ", "h", "a",
      "p", "p", "y", " ", "t", "o", " ", "c", "o", "n", "n", "e", "c", "t", " ", "v", "i", "a",
      " ">>

\* "I'm happy to connect if you have questions"
S_connect_questions ==
    <<"I", "'", "m", " ", "h", "a", "p", "p", "y", " ", "t", "o", " ", "c", "o", "n", "n", "e",
      "c", "t", " ", "i", "f", " ", "y", "o", "u", " ", "h", "a", "v", "e", " ", "q", "u", "e",
      "s", "t", "i", "o", "n", "s">>

\* "to keep momentum going"
S_momentum ==
    <<"t", "o", " ", "k", "e", "e", "p", " ", "m", "o", "m", "e", "n", "t", "u", "m", " ", "g",
      "o", "i", "n", "g">>

\* "I can also set a quick check-in with the student and counselor if needed."
S_check_in ==
    <<"I", " ", "c", "a", "n", " ", "a", "l", "s", "o", " ", "s", "e", "t", " ", "a", " ", "q",
      "u", "i", "c", "k", " ", "c", "h", "e", "c", "k", "-", "i", "n", " ", "w", "i", "t", "h",
      " ", "t", "h", "e", " ", "s", "t", "u", "d", "e", "n", "t", " ", "a", "n", "d", " ", "c",
      "o", "u", "n", "s", "e", "l", "o", "r", " ", "i", "f", " ", "n", "e", "e", "d", "e", "d",
      ".">>

\* "(em dash) "
S_dash ==
    <<EmDash, " ">>

\* "Update on "
S_Update_on ==
    <<"U", "p", "d", "a", "t", "e", " ", "o", "n", " ">>

\* " min late."
S_min_late ==
    <<" ", "m", "i", "n", " ", "l", "a", "t", "e", ".">>

\* "On time."
S_On_time ==
    <<"O", "n", " ", "t", "i", "m", "e", ".">>

\* "Lesson: "
S_Lesson ==
    <<"L", "e", "s", "s", "o", "n", ":", " ">>

\* "Lesson continued."
S_Lesson_continued ==
    <<"L", "e", "s", "s", "o", "n", " ", "c", "o", "n", "t", "i", "n", "u", "e", "d", ".">>

\* "Behavior: "
S_Behavior ==
    <<"B", "e", "h", "a", "v", "i", "o", "r", ":", " ">>

\* "Mood: "
S_Mood ==
    <<"M", "o", "o", "d", ":", " ">>

\* "HW: "
S_HW ==
    <<"H", "W", ":", " ">>

\* "Due: "
S_Due ==
    <<"D", "u", "e", ":", " ">>

\* "..."
S_dots ==
    <<".", ".", ".">>

\* "_email_feedback.txt"
S_email_txt ==
    <<"_", "e", "m", "a", "i", "l", "_", "f", "e", "e", "d", "b", "a", "c", "k", ".", "t", "x",
      "t">>

\* "_sms_feedback.txt"
S_sms_txt ==
    <<"_", "s", "m", "s", "_", "f", "e", "e", "d", "b", "a", "c", "k", ".", "t", "x", "t">>

(***************************************************************************)
(* Python string primitives.                                               *)
(***************************************************************************)

RECURSIVE SkipLeft(_, _)
\* The first index >= i of s that holds no whitespace (Len(s) + 1 if none).
SkipLeft(s, i) ==
    IF i > Len(s) THEN i
    ELSE IF s[i] \in Whitespace THEN SkipLeft(s, i + 1) ELSE i

RECURSIVE SkipRight(_, _)
\* The last index <= j of s that holds no whitespace (0 if none).
SkipRight(s, j) ==
    IF j < 1 THEN j
    ELSE IF s[j] \in Whitespace THEN SkipRight(s, j - 1) ELSE j

\* str.strip()
strip(s) == SubSeq(s, SkipLeft(s, 1), SkipRight(s, Len(s)))

\* str.endswith(('.', '!', '?'))
endswith_terminal(s) == Len(s) > 0 /\ s[Len(s)] \in {".", "!", "?"}

LowerChar(c) ==
    IF \E k \in 1..26 : UpperCase[k] = c
    THEN LowerCase[CHOOSE k \in 1..26 : UpperCase[k] = c]
    ELSE c

\* str.lower()
lower(s) == [i \in 1..Len(s) |-> LowerChar(s[i])]

\* str.replace(' ', '_')
replace_spaces(s) == [i \in 1..Len(s) |-> IF s[i] = " " THEN "_" ELSE s[i]]

RECURSIVE str_int(_)
\* str(n) for n >= 0, as the f-string formats minutes_late.
str_int(n) ==
    IF n < 10 THEN <<Digits[n + 1]>>
    ELSE str_int(n \div 10) \o <<Digits[(n % 10) + 1]>>

RECURSIVE join(_, _)
\* sep.join(parts)
join(sep, parts) ==
    IF parts = <<>> THEN <<>>
    ELSE IF Len(parts) = 1 THEN parts[1]
    ELSE parts[1] \o sep \o join(sep, Tail(parts))

(***************************************************************************)
(* Helper utilities (lines 27-52).                                         *)
(***************************************************************************)

\* word_plural is never passed: it is None and the "s" form is returned.
pluralize(word_singular, count) ==
    IF count = 1 THEN word_singular ELSE word_singular \o <<"s">>

safe_strip(text) == strip(text)

IsNonEmpty(p) == p # <<>>

join_if_any(parts, sep) == join(sep, SelectSeq(parts, IsNonEmpty))

sentence(text) ==
    LET t == safe_strip(text) IN
    IF t = <<>> THEN <<>>
    ELSE IF endswith_terminal(t) THEN t ELSE t \o <<".">>

list_as_clause(label, content) ==
    LET c == safe_strip(content) IN
    IF c = <<>> THEN <<>>
    ELSE label \o <<":", " ">> \o c \o <<".">>

(***************************************************************************)
(* build_feedback (lines 55-168).  r is the record of its arguments.       *)
(***************************************************************************)

\* A Python string is truthy when it is not empty.
truthy(text) == text # <<>>

name(r) ==
    IF truthy(r.student_name) THEN strip(r.student_name) ELSE S_your_student

openings(r) ==
    [Warm    |-> S_warm_pre \o name(r) \o S_warm_post,
     Neutral |-> S_neutral_pre \o name(r) \o S_neutral_post,
     Formal  |-> S_formal_pre \o name(r) \o S_formal_post]

closings ==
    [Warm    |-> S_warm_closing,
     Neutral |-> S_neutral_closing,
     Formal  |-> S_formal_closing]

\* dict.get(key, default)
dict_get(d, key, default) == IF key \in DOMAIN d THEN d[key] ELSE default

arrival_clause(r) ==
    IF r.minutes_late > 0
    THEN sentence(name(r) \o S_arrived \o str_int(r.minutes_late) \o <<" ">>
                  \o pluralize(S_minute, r.minutes_late) \o S_late_helped)
    ELSE <<>>

lesson_clause(r) ==
    sentence(join_if_any(
        <<IF truthy(r.course) THEN S_In \o strip(r.course) ELSE S_In_class,
          IF truthy(r.lesson_covered)
          THEN S_we_worked_on \o strip(r.lesson_covered)
          ELSE S_we_continued>>,
        <<" ">>))

\* behavior and mood are rebound to their stripped values (lines 104-105).
behavior(r) == safe_strip(r.behavior)

mood(r) == safe_strip(r.mood)

behavior_clause(r) ==
    sentence(join_if_any(
        <<IF truthy(behavior(r)) THEN S_Behavior_noted \o behavior(r) ELSE <<>>,
          IF truthy(mood(r)) THEN S_Mood_observed \o mood(r) ELSE <<>> >>,
        <<" ">>))

strengths_clause(r) == list_as_clause(S_Strengths, r.strengths)

supports_clause(r) == list_as_clause(S_Supports, r.supports_today)

nextsteps_clause(r) == list_as_clause(S_Next_steps, r.next_steps)

homework_clause(r) == list_as_clause(S_Homework, r.homework)

outstanding_clause(r) == list_as_clause(S_Outstanding, r.outstanding)

\* contact_base without .lower(): the preference is interpolated as typed.
contact_base_as_typed(r) ==
    sentence(join_if_any(
        <<IF truthy(r.contact_pref)
          THEN S_connect_via \o r.contact_pref
          ELSE S_connect_questions,
          S_momentum>>,
        <<" ">>))

contact_base(r) ==
    sentence(join_if_any(
        <<IF truthy(r.contact_pref)
          THEN S_connect_via \o lower(r.contact_pref)
          ELSE S_connect_questions,
          S_momentum>>,
        <<" ">>))

contact_line(r) ==
    IF r.meeting_offer
    THEN sentence(join_if_any(<<contact_base(r), S_check_in>>, <<" ">>))
    ELSE contact_base(r)

\* opening_line with the first entry as the default instead of Neutral.
opening_line_default_warm(r) ==
    dict_get(openings(r), r.tone, openings(r)["Warm"])

opening_line(r) == dict_get(openings(r), r.tone, openings(r)["Neutral"])

closing_line(r) == dict_get(closings, r.tone, closings["Neutral"])

signature(r) == IF truthy(r.teacher) THEN S_dash \o r.teacher ELSE <<>>

body_lines(r) ==
    <<opening_line(r),
      arrival_clause(r),
      lesson_clause(r),
      behavior_clause(r),
      strengths_clause(r),
      supports_clause(r),
      homework_clause(r),
      outstanding_clause(r),
      nextsteps_clause(r),
      contact_line(r),
      closing_line(r),
      signature(r)>>

\* The filter of lines 149 and 161: keep what does not strip to empty.
HasText(l) == safe_strip(l) # <<>>

\* email_message without the filter: empty paragraphs are joined too.
email_message_unfiltered(r) == join(<<"\n", "\n">>, body_lines(r))

email_message(r) == join(<<"\n", "\n">>, SelectSeq(body_lines(r), HasText))

sms_bits(r) ==
    <<S_Update_on \o name(r) \o <<":">>,
      IF r.minutes_late # 0 /\ r.minutes_late > 0
      THEN str_int(r.minutes_late) \o S_min_late
      ELSE S_On_time,
      IF truthy(r.lesson_covered)
      THEN S_Lesson \o strip(r.lesson_covered)
      ELSE S_Lesson_continued,
      IF truthy(behavior(r)) THEN S_Behavior \o behavior(r) ELSE <<>>,
      IF truthy(mood(r)) THEN S_Mood \o mood(r) ELSE <<>>,
      IF truthy(r.homework) THEN S_HW \o strip(r.homework) ELSE <<>>,
      IF truthy(r.outstanding) THEN S_Due \o strip(r.outstanding) ELSE <<>> >>

\* The SMS before truncation (line 161).
sms_joined(r) == join(<<" ">>, SelectSeq(sms_bits(r), HasText))

\* The SMS limit and the length kept in front of "..." (lines 162-163).
SmsLimit == 320

SmsKept == 317

\* truncate keeping 320 characters in front of "...".
truncate_keeps_limit(s) ==
    IF Len(s) > SmsLimit THEN SubSeq(s, 1, SmsLimit) \o S_dots ELSE s

truncate(s) ==
    IF Len(s) > SmsLimit THEN SubSeq(s, 1, SmsKept) \o S_dots ELSE s

sms_message(r) == truncate(sms_joined(r))

build_feedback(r) == [email |-> email_message(r), sms |-> sms_message(r)]

(***************************************************************************)
(* Input texts.                                                            *)
(***************************************************************************)

\* " "
V_blank ==
    <<" ">>

\* "Jo"
V_Jo ==
    <<"J", "o">>

\* " Jo P. "
V_Jo_P ==
    <<" ", "J", "o", " ", "P", ".", " ">>

\* "math"
V_math ==
    <<"m", "a", "t", "h">>

\* "Read ch. 3."
V_Read ==
    <<"R", "e", "a", "d", " ", "c", "h", ".", " ", "3", ".">>

\* "on-task"
V_on_task ==
    <<"o", "n", "-", "t", "a", "s", "k">>

\* "Positive"
V_Positive ==
    <<"P", "o", "s", "i", "t", "i", "v", "e">>

\* "Tired"
V_Tired ==
    <<"T", "i", "r", "e", "d">>

\* "p. 5"
V_p5 ==
    <<"p", ".", " ", "5">>

\* "quiz"
V_quiz ==
    <<"q", "u", "i", "z">>

\* "Great work!"
V_Great ==
    <<"G", "r", "e", "a", "t", " ", "w", "o", "r", "k", "!">>

\* "helps peers"
V_peers ==
    <<"h", "e", "l", "p", "s", " ", "p", "e", "e", "r", "s">>

\* "extra time"
V_extra_time ==
    <<"e", "x", "t", "r", "a", " ", "t", "i", "m", "e">>

\* "tutoring?"
V_tutoring ==
    <<"t", "u", "t", "o", "r", "i", "n", "g", "?">>

\* "Ms. R"
V_Ms_R ==
    <<"M", "s", ".", " ", "R">>

\* "Algebra II"
V_Algebra ==
    <<"A", "l", "g", "e", "b", "r", "a", " ", "I", "I">>

\* "Email"
V_Email ==
    <<"E", "m", "a", "i", "l">>

\* "In-person meeting"
V_In_person ==
    <<"I", "n", "-", "p", "e", "r", "s", "o", "n", " ", "m", "e", "e", "t", "i", "n", "g">>

\* "ZOOM"
V_ZOOM ==
    <<"Z", "O", "O", "M">>

(***************************************************************************)
(* The inputs the model draws from.                                        *)
(***************************************************************************)

\* At most this many widgets of the form hold something else than their
\* initial value.
MaxFilled == 4

\* A direct call's arguments differ from one of the BaseRecords in at most
\* this many fields.
MaxArgs == 2

\* A text of n characters.
Long(n) == [i \in 1..n |-> IF i = 1 THEN "Q" ELSE "x"]

Fields ==
    {"student_name", "minutes_late", "lesson_covered", "behavior", "mood",
     "homework", "outstanding", "strengths", "supports_today", "next_steps",
     "tone", "teacher", "course", "contact_pref", "meeting_offer"}

\* The widgets' initial values (lines 181-214).
Defaults ==
    [student_name   |-> <<>>,
     minutes_late   |-> 0,
     lesson_covered |-> <<>>,
     behavior       |-> <<>>,
     mood           |-> <<>>,
     homework       |-> <<>>,
     outstanding    |-> <<>>,
     strengths      |-> <<>>,
     supports_today |-> <<>>,
     next_steps     |-> <<>>,
     tone           |-> "Warm",
     teacher        |-> <<>>,
     course         |-> <<>>,
     contact_pref   |-> <<>>,
     meeting_offer  |-> FALSE]

\* What the form lets the user enter: free text in the text inputs and text
\* areas, 0..120 in the number input, the listed options elsewhere.
FormChoices ==
    [student_name   |-> {<<>>, V_blank, V_Jo, V_Jo_P},
     minutes_late   |-> {0, 1, 120},
     lesson_covered |-> {<<>>, V_blank, V_math, V_Read, Long(289), Long(290)},
     behavior       |-> {<<>>, V_on_task},
     mood           |-> {<<>>, V_Positive},
     homework       |-> {<<>>, V_blank, V_p5},
     outstanding    |-> {<<>>, V_quiz},
     strengths      |-> {<<>>, V_Great},
     supports_today |-> {<<>>, V_extra_time},
     next_steps     |-> {<<>>, V_tutoring},
     tone           |-> {"Warm", "Neutral", "Formal"},
     teacher        |-> {<<>>, V_Ms_R},
     course         |-> {<<>>, V_Algebra},
     contact_pref   |-> {<<>>, V_Email},
     meeting_offer  |-> {FALSE, TRUE}]

\* What a caller of build_feedback may pass: the above, and values the form
\* cannot produce (a negative count, unlisted options, blank text).
ArgChoices ==
    [student_name   |-> {<<>>, V_blank, V_Jo, V_Jo_P},
     minutes_late   |-> {-1, 0, 1, 2, 10, 120},
     lesson_covered |-> {<<>>, V_blank, V_math, V_Read, Long(279), Long(280),
                         Long(289), Long(290)},
     behavior       |-> {<<>>, V_blank, V_on_task},
     mood           |-> {<<>>, V_blank, V_Positive, V_Tired},
     homework       |-> {<<>>, V_blank, V_p5, V_Read},
     outstanding    |-> {<<>>, V_blank, V_quiz},
     strengths      |-> {<<>>, V_blank, V_Great, V_peers},
     supports_today |-> {<<>>, V_extra_time},
     next_steps     |-> {<<>>, V_tutoring},
     tone           |-> {"Warm", "Neutral", "Formal", "Casual", ""},
     teacher        |-> {<<>>, V_blank, V_Ms_R},
     course         |-> {<<>>, V_blank, V_Algebra},
     contact_pref   |-> {<<>>, V_blank, V_Email, V_In_person, V_ZOOM},
     meeting_offer  |-> {FALSE, TRUE}]

\* A record with every field filled in.
FullRecord ==
    [student_name   |-> V_Jo,
     minutes_late   |-> 2,
     lesson_covered |-> V_math,
     behavior       |-> V_on_task,
     mood           |-> V_Positive,
     homework       |-> V_p5,
     outstanding    |-> V_quiz,
     strengths      |-> V_peers,
     supports_today |-> V_extra_time,
     next_steps     |-> V_tutoring,
     tone           |-> "Formal",
     teacher        |-> V_Ms_R,
     course         |-> V_Algebra,
     contact_pref   |-> V_Email,
     meeting_offer  |-> TRUE]

\* The records direct calls start from: nothing filled in, all filled in.
BaseRecords == {Defaults, FullRecord}

\* The fields in which r and b differ.
Differ(r, b) == {f \in Fields : r[f] # b[f]}

Filled(r) == Differ(r, Defaults)

NearBase(r) == \E b \in BaseRecords : Cardinality(Differ(r, b)) <= MaxArgs

(***************************************************************************)
(* The app (lines 175-264).                                                *)
(***************************************************************************)

NoMessages == [email |-> <<>>, sms |-> <<>>]

\* The validation without safe_strip: only empty fields are missing.
MissingRequiredField_unstripped(r) ==
    ~truthy(r.student_name) \/ ~truthy(r.lesson_covered)

\* The validation of the name alone.
MissingRequiredField_name_only(r) == safe_strip(r.student_name) = <<>>

\* The validation of line 219.
MissingRequiredField(r) ==
    safe_strip(r.student_name) = <<>> \/ safe_strip(r.lesson_covered) = <<>>

\* The file names of the two download buttons (lines 244 and 248).
file_names(r) ==
    <<replace_spaces(r.student_name) \o S_email_txt,
      replace_spaces(r.student_name) \o S_sms_txt>>

Init ==
    /\ inputs = Defaults
    /\ status = "info"
    /\ calls = 0
    /\ messages = NoMessages
    /\ downloads = <<>>

\* The user leaves widget f at v and presses "Generate Feedback"; the script
\* runs with submitted = True and the validation fails (lines 218-220).
SubmitRejected(f, v) ==
    LET r == [inputs EXCEPT ![f] = v] IN
    /\ Cardinality(Filled(r)) <= MaxFilled
    /\ MissingRequiredField(r)
    /\ inputs' = r
    /\ status' = "error"
    /\ calls' = 0
    /\ messages' = NoMessages
    /\ downloads' = <<>>

\* The same, and the validation passes (lines 221-248).
SubmitAccepted(f, v) ==
    LET r == [inputs EXCEPT ![f] = v] IN
    /\ Cardinality(Filled(r)) <= MaxFilled
    /\ ~MissingRequiredField(r)
    /\ inputs' = r
    /\ status' = "success"
    /\ calls' = 1
    /\ messages' = build_feedback(r)
    /\ downloads' = file_names(r)

\* Any other run of the script (a download button pressed, the page
\* reloaded): submitted = False, and only the hint is shown (lines 263-264).
Rerun ==
    /\ status' = "info"
    /\ calls' = 0
    /\ messages' = NoMessages
    /\ downloads' = <<>>
    /\ UNCHANGED inputs

Next ==
    \/ \E f \in Fields : \E v \in FormChoices[f] : SubmitRejected(f, v)
    \/ \E f \in Fields : \E v \in FormChoices[f] : SubmitAccepted(f, v)
    \/ Rerun

Spec == Init /\ [][Next]_vars

(***************************************************************************)
(* build_feedback called directly.                                         *)
(***************************************************************************)

InitCompose ==
    /\ inputs \in BaseRecords
    /\ status = "pending"
    /\ calls = 0
    /\ messages = NoMessages
    /\ downloads = <<>>

\* The caller prepares the next call's arguments.
Prepare(f, v) ==
    LET r == [inputs EXCEPT ![f] = v] IN
    /\ r # inputs
    /\ NearBase(r)
    /\ inputs' = r
    /\ status' = "pending"
    /\ calls' = 0
    /\ messages' = NoMessages
    /\ UNCHANGED downloads

\* messages = build_feedback(...)
Call ==
    /\ status = "pending"
    /\ status' = "returned"
    /\ calls' = 1
    /\ messages' = build_feedback(inputs)
    /\ UNCHANGED <<inputs, downloads>>

NextCompose ==
    \/ \E f \in Fields : \E v \in ArgChoices[f] : Prepare(f, v)
    \/ Call

SpecCompose == InitCompose /\ [][NextCompose]_vars

(***************************************************************************)
(* The properties.  The texts they expect are written out here in full,    *)
(* apart from the pieces the code assembles them from.                     *)
(***************************************************************************)

\* "your student"
E_your_student ==
    <<"y", "o", "u", "r", " ", "s", "t", "u", "d", "e", "n", "t">>

\* "Hello, sharing a brief update about "
E_neutral_pre ==
    <<"H", "e", "l", "l", "o", ",", " ", "s", "h", "a", "r", "i", "n", "g", " ", "a", " ", "b",
      "r", "i", "e", "f", " ", "u", "p", "d", "a", "t", "e", " ", "a", "b", "o", "u", "t", " ">>

\* " from today."
E_from_today ==
    <<" ", "f", "r", "o", "m", " ", "t", "o", "d", "a", "y", ".">>

\* "Thank you for your attention."
E_neutral_closing ==
    <<"T", "h", "a", "n", "k", " ", "y", "o", "u", " ", "f", "o", "r", " ", "y", "o", "u", "r",
      " ", "a", "t", "t", "e", "n", "t", "i", "o", "n", ".">>

\* " arrived "
E_arrived ==
    <<" ", "a", "r", "r", "i", "v", "e", "d", " ">>

\* " minute late. I helped them get settled and connected to the task."
E_minute_late ==
    <<" ", "m", "i", "n", "u", "t", "e", " ", "l", "a", "t", "e", ".", " ", "I", " ", "h", "e",
      "l", "p", "e", "d", " ", "t", "h", "e", "m", " ", "g", "e", "t", " ", "s", "e", "t", "t",
      "l", "e", "d", " ", "a", "n", "d", " ", "c", "o", "n", "n", "e", "c", "t", "e", "d", " ",
      "t", "o", " ", "t", "h", "e", " ", "t", "a", "s", "k", ".">>

\* " minutes late. I helped them get settled and connected to the task."
E_minutes_late ==
    <<" ", "m", "i", "n", "u", "t", "e", "s", " ", "l", "a", "t", "e", ".", " ", "I", " ", "h",
      "e", "l", "p", "e", "d", " ", "t", "h", "e", "m", " ", "g", "e", "t", " ", "s", "e", "t",
      "t", "l", "e", "d", " ", "a", "n", "d", " ", "c", "o", "n", "n", "e", "c", "t", "e", "d",
      " ", "t", "o", " ", "t", "h", "e", " ", "t", "a", "s", "k", ".">>

\* "On time."
E_On_time ==
    <<"O", "n", " ", "t", "i", "m", "e", ".">>

\* " min late."
E_min_late ==
    <<" ", "m", "i", "n", " ", "l", "a", "t", "e", ".">>

\* "Update on "
E_Update_on ==
    <<"U", "p", "d", "a", "t", "e", " ", "o", "n", " ">>

\* "Lesson: "
E_Lesson ==
    <<"L", "e", "s", "s", "o", "n", ":", " ">>

\* "Lesson continued."
E_Lesson_continued ==
    <<"L", "e", "s", "s", "o", "n", " ", "c", "o", "n", "t", "i", "n", "u", "e", "d", ".">>

\* "Behavior: "
E_Behavior ==
    <<"B", "e", "h", "a", "v", "i", "o", "r", ":", " ">>

\* "Mood: "
E_Mood ==
    <<"M", "o", "o", "d", ":", " ">>

\* "HW: "
E_HW ==
    <<"H", "W", ":", " ">>

\* "Due: "
E_Due ==
    <<"D", "u", "e", ":", " ">>

\* "If helpful, I'm happy to connect via "
E_via_pre ==
    <<"I", "f", " ", "h", "e", "l", "p", "f", "u", "l", ",", " ", "I", "'", "m", " ", "h", "a",
      "p", "p", "y", " ", "t", "o", " ", "c", "o", "n", "n", "e", "c", "t", " ", "v", "i", "a",
      " ">>

\* " to keep momentum going."
E_via_post ==
    <<" ", "t", "o", " ", "k", "e", "e", "p", " ", "m", "o", "m", "e", "n", "t", "u", "m", " ",
      "g", "o", "i", "n", "g", ".">>

\* "I'm happy to connect if you have questions to keep momentum going."
E_generic_contact ==
    <<"I", "'", "m", " ", "h", "a", "p", "p", "y", " ", "t", "o", " ", "c", "o", "n", "n", "e",
      "c", "t", " ", "i", "f", " ", "y", "o", "u", " ", "h", "a", "v", "e", " ", "q", "u", "e",
      "s", "t", "i", "o", "n", "s", " ", "t", "o", " ", "k", "e", "e", "p", " ", "m", "o", "m",
      "e", "n", "t", "u", "m", " ", "g", "o", "i", "n", "g", ".">>

\* "I can also set a quick check-in with the student and counselor if needed."
E_check_in ==
    <<"I", " ", "c", "a", "n", " ", "a", "l", "s", "o", " ", "s", "e", "t", " ", "a", " ", "q",
      "u", "i", "c", "k", " ", "c", "h", "e", "c", "k", "-", "i", "n", " ", "w", "i", "t", "h",
      " ", "t", "h", "e", " ", "s", "t", "u", "d", "e", "n", "t", " ", "a", "n", "d", " ", "c",
      "o", "u", "n", "s", "e", "l", "o", "r", " ", "i", "f", " ", "n", "e", "e", "d", "e", "d",
      ".">>

\* "we continued building core skills"
E_we_continued ==
    <<"w", "e", " ", "c", "o", "n", "t", "i", "n", "u", "e", "d", " ", "b", "u", "i", "l", "d",
      "i", "n", "g", " ", "c", "o", "r", "e", " ", "s", "k", "i", "l", "l", "s">>

\* "Strengths I noticed: "
E_Strengths ==
    <<"S", "t", "r", "e", "n", "g", "t", "h", "s", " ", "I", " ", "n", "o", "t", "i", "c", "e",
      "d", ":", " ">>

\* "Supports provided: "
E_Supports ==
    <<"S", "u", "p", "p", "o", "r", "t", "s", " ", "p", "r", "o", "v", "i", "d", "e", "d", ":",
      " ">>

\* "Homework assigned today: "
E_Homework ==
    <<"H", "o", "m", "e", "w", "o", "r", "k", " ", "a", "s", "s", "i", "g", "n", "e", "d", " ",
      "t", "o", "d", "a", "y", ":", " ">>

\* "Outstanding/late work: "
E_Outstanding ==
    <<"O", "u", "t", "s", "t", "a", "n", "d", "i", "n", "g", "/", "l", "a", "t", "e", " ", "w",
      "o", "r", "k", ":", " ">>

\* "Next steps: "
E_Next_steps ==
    <<"N", "e", "x", "t", " ", "s", "t", "e", "p", "s", ":", " ">>

\* s consists of whitespace only: it trims to empty.
IsBlank(s) == \A i \in 1..Len(s) : s[i] \in Whitespace

IsPrefix(p, s) == Len(p) <= Len(s) /\ SubSeq(s, 1, Len(p)) = p

IsSuffix(p, s) ==
    Len(p) <= Len(s) /\ SubSeq(s, Len(s) - Len(p) + 1, Len(s)) = p

\* t occurs in s.
Contains(s, t) ==
    \/ t = <<>>
    \/ \E i \in 1..(Len(s) - Len(t) + 1) :
           s[i] = t[1] /\ SubSeq(s, i, i + Len(t) - 1) = t

Min(S) == CHOOSE x \in S : \A y \in S : x <= y

RECURSIVE SplitParagraphs(_, _)
\* The paragraphs of e from index from on: the pieces between blank lines.
SplitParagraphs(e, from) ==
    LET seps == {i \in from..(Len(e) - 1) : e[i] = "\n" /\ e[i + 1] = "\n"} IN
    IF seps = {} THEN <<SubSeq(e, from, Len(e))>>
    ELSE <<SubSeq(e, from, Min(seps) - 1)>> \o SplitParagraphs(e, Min(seps) + 2)

Paragraphs(e) == SplitParagraphs(e, 1)

\* The sentence-termination rule: a period unless one of . ! ? is there.
Terminated(t) ==
    IF t = <<>> THEN <<>>
    ELSE IF t[Len(t)] \in {".", "!", "?"} THEN t ELSE t \o <<".">>

DoubledEnd(p) ==
    Len(p) >= 2 /\ p[Len(p)] \in {".", "!", "?"} /\ p[Len(p) - 1] \in {".", "!", "?"}

\* The opening paragraph p addresses nm: "... about <nm> from today." or
\* "... regarding <nm>."
OpeningNames(p, nm) ==
    \/ IsSuffix(<<" ">> \o nm \o E_from_today, p)
    \/ IsSuffix(<<" ">> \o nm \o <<".">>, p)

\* Where the closing paragraph stands: last, or just before the signature.
ClosingAt(ps, r) == IF r.teacher # <<>> THEN Len(ps) - 1 ELSE Len(ps)

\* The SMS lateness fragment the claims expect.
ExpectedLateness(n) == IF n > 0 THEN str_int(n) \o E_min_late ELSE E_On_time

Returned == status = "returned"

(***************************************************************************)
(* C1.  On every form submission, build_feedback is called if and only if  *)
(* both student_name and lesson_covered are non-empty after trimming; when *)
(* either trims to empty an error is shown, the composer is not called and *)
(* no message and no download is produced.                                 *)
(***************************************************************************)
C1_ComposerCalledIffRequiredFilled ==
    status \in {"error", "success"} =>
        LET blank == IsBlank(inputs.student_name) \/ IsBlank(inputs.lesson_covered)
        IN  /\ (calls = 1) <=> ~blank
            /\ blank => /\ status = "error"
                        /\ calls = 0
                        /\ messages = NoMessages
                        /\ downloads = <<>>

\* A submission with a name and a whitespace-only lesson was rejected.
C1_Witness ==
    /\ status = "error"
    /\ ~IsBlank(inputs.student_name)
    /\ inputs.lesson_covered = V_blank
    /\ calls = 0

(***************************************************************************)
(* C2.  The sms build_feedback returns is at most 320 characters long; if  *)
(* the space-joined fragments are longer than 320 characters the sms is    *)
(* their first 317 characters followed by "..." (320 characters), and      *)
(* otherwise the joined fragments unchanged.                               *)
(***************************************************************************)
C2_SmsAtMost320 ==
    Returned =>
        LET raw == sms_joined(inputs)
            sms == messages.sms
        IN  /\ Len(sms) <= 320
            /\ IF Len(raw) > 320
               THEN sms = SubSeq(raw, 1, 317) \o <<".", ".", ".">> /\ Len(sms) = 320
               ELSE sms = raw

\* The joined fragments are one character too long, and were cut.
C2_Witness ==
    /\ Returned
    /\ Len(sms_joined(inputs)) = 321
    /\ Len(messages.sms) = 320
    /\ IsSuffix(<<".", ".", ".">>, messages.sms)

(***************************************************************************)
(* C3.  The name in the email opening, in the arrival clause and in the    *)
(* SMS fragment "Update on <name>:" is "your student" whenever             *)
(* student_name trims to empty (whitespace-only values included), and the  *)
(* trimmed student_name otherwise.                                         *)
(***************************************************************************)
C3_NameOrPlaceholder ==
    Returned =>
        LET expected == IF IsBlank(inputs.student_name)
                        THEN E_your_student
                        ELSE strip(inputs.student_name)
            ps == Paragraphs(messages.email)
        IN  /\ OpeningNames(ps[1], expected)
            /\ inputs.minutes_late > 0 => IsPrefix(expected \o E_arrived, ps[2])
            /\ IsPrefix(E_Update_on \o expected \o <<":">>, messages.sms)

AllOptionalEmpty(r) ==
    /\ r.minutes_late = 0
    /\ \A f \in {"behavior", "mood", "homework", "outstanding", "strengths",
                 "supports_today", "next_steps", "teacher", "course",
                 "contact_pref"} : r[f] = <<>>
    /\ ~r.meeting_offer

(***************************************************************************)
(* C4.  The email is the non-empty paragraphs among opening, arrival,      *)
(* lesson, behavior/mood, strengths, supports, homework, outstanding,      *)
(* next steps, contact, closing, signature, in that order, separated by    *)
(* exactly one blank line; with every optional field empty and             *)
(* minutes_late = 0 it is exactly opening, lesson, contact, closing, with  *)
(* no leading or trailing blank line and no empty paragraph.               *)
(***************************************************************************)
C4_EmailParagraphs ==
    Returned =>
        LET r == inputs
            inOrder == <<opening_line(r), arrival_clause(r), lesson_clause(r),
                         behavior_clause(r), strengths_clause(r),
                         supports_clause(r), homework_clause(r),
                         outstanding_clause(r), nextsteps_clause(r),
                         contact_line(r), closing_line(r), signature(r)>>
            present == SelectSeq(inOrder, IsNonEmpty)
            ps == Paragraphs(messages.email)
        IN  /\ ps = present
            /\ messages.email = join(<<"\n", "\n">>, present)
            /\ \A i \in DOMAIN ps : ps[i] # <<>>
            /\ AllOptionalEmpty(r) =>
                   /\ ps = <<opening_line(r), lesson_clause(r),
                             contact_line(r), closing_line(r)>>
                   /\ messages.email[1] # "\n"
                   /\ messages.email[Len(messages.email)] # "\n"

\* Every one of the twelve paragraphs is present.
C4_Witness ==
    /\ Returned
    /\ inputs = FullRecord
    /\ Len(Paragraphs(messages.email)) = 12

ExpectedLabeled(label, content) ==
    IF IsBlank(content) THEN <<>> ELSE Terminated(label \o strip(content))

(***************************************************************************)
(* C5.  Every clause of the email gets a trailing period only if its text  *)
(* does not already end in '.', '!' or '?': no clause ends in doubled      *)
(* terminal punctuation, and a clause with empty content stays empty.      *)
(***************************************************************************)
C5_SentenceTermination ==
    Returned =>
        LET r == inputs
            ps == Paragraphs(messages.email)
            clauses == {arrival_clause(r), lesson_clause(r), behavior_clause(r),
                        strengths_clause(r), supports_clause(r),
                        homework_clause(r), outstanding_clause(r),
                        nextsteps_clause(r), contact_line(r)}
        IN  /\ strengths_clause(r) = ExpectedLabeled(E_Strengths, r.strengths)
            /\ supports_clause(r) = ExpectedLabeled(E_Supports, r.supports_today)
            /\ homework_clause(r) = ExpectedLabeled(E_Homework, r.homework)
            /\ outstanding_clause(r) = ExpectedLabeled(E_Outstanding, r.outstanding)
            /\ nextsteps_clause(r) = ExpectedLabeled(E_Next_steps, r.next_steps)
            /\ \A c \in clauses :
                   /\ ~DoubledEnd(c)
                   /\ c # <<>> => \E i \in DOMAIN ps : ps[i] = c

HasArrivalParagraph(ps) ==
    \E i \in DOMAIN ps :
        IsSuffix(E_minute_late, ps[i]) \/ IsSuffix(E_minutes_late, ps[i])

(***************************************************************************)
(* C6.  The email contains the arrival paragraph "<name> arrived <n>       *)
(* <minute|minutes> late. I helped them get settled and connected to the   *)
(* task." if and only if minutes_late > 0, "minute" exactly when n = 1;    *)
(* the second SMS fragment is "<n> min late." exactly when                 *)
(* minutes_late > 0 and "On time." otherwise.                              *)
(***************************************************************************)
C6_LatenessAgrees ==
    Returned =>
        LET n == inputs.minutes_late
            ps == Paragraphs(messages.email)
        IN  /\ HasArrivalParagraph(ps) <=> n > 0
            /\ n > 0 =>
                   \E i \in DOMAIN ps :
                       ps[i] = name(inputs) \o E_arrived \o str_int(n)
                               \o (IF n = 1 THEN E_minute_late ELSE E_minutes_late)
            /\ IsPrefix(E_Update_on \o name(inputs) \o <<":", " ">>
                        \o ExpectedLateness(n), messages.sms)

(***************************************************************************)
(* C7.  The email's first paragraph and its closing paragraph are the      *)
(* opening and closing of the same tone entry: the entry tone names if it  *)
(* is Warm, Neutral or Formal, and the Neutral entry for any other value.  *)
(***************************************************************************)
C7_ToneFallback ==
    Returned =>
        LET r == inputs
            ps == Paragraphs(messages.email)
            entry == IF r.tone \in {"Warm", "Neutral", "Formal"}
                     THEN r.tone ELSE "Neutral"
        IN  /\ ps[1] = openings(r)[entry]
            /\ ps[ClosingAt(ps, r)] = closings[entry]
            /\ r.tone \notin {"Warm", "Neutral", "Formal"} =>
                   /\ ps[1] = E_neutral_pre \o name(r) \o E_from_today
                   /\ ps[ClosingAt(ps, r)] = E_neutral_closing

\* A call with a tone that is no entry of the table returned.
C7_Witness ==
    /\ Returned
    /\ inputs.tone = "Casual"
    /\ IsPrefix(E_neutral_pre, messages.email)

OptionalFragment(label, content) ==
    IF IsBlank(content) THEN <<>> ELSE <<label \o strip(content)>>

ExpectedSms(r) ==
    join(<<" ">>,
         <<E_Update_on \o name(r) \o <<":">>,
           ExpectedLateness(r.minutes_late),
           IF r.lesson_covered = <<>>
           THEN E_Lesson_continued
           ELSE E_Lesson \o strip(r.lesson_covered)>>
         \o OptionalFragment(E_Behavior, r.behavior)
         \o OptionalFragment(E_Mood, r.mood)
         \o OptionalFragment(E_HW, r.homework)
         \o OptionalFragment(E_Due, r.outstanding))

(***************************************************************************)
(* C8.  Before truncation the SMS is "Update on <name>:", the lateness     *)
(* fragment, "Lesson: <lesson>" (or "Lesson continued." when lesson is     *)
(* empty), then "Behavior: ", "Mood: ", "HW: ", "Due: " fragments, each    *)
(* present exactly when its field is non-empty after trimming, separated   *)
(* by exactly one space.                                                   *)
(***************************************************************************)
C8_SmsFragments ==
    Returned =>
        /\ sms_joined(inputs) = ExpectedSms(inputs)
        /\ Len(ExpectedSms(inputs)) <= 320 => messages.sms = ExpectedSms(inputs)

ExpectedContact(r) ==
    LET base == IF r.contact_pref # <<>>
                THEN E_via_pre \o lower(r.contact_pref) \o E_via_post
                ELSE E_generic_contact
    IN  IF r.meeting_offer THEN base \o <<" ">> \o E_check_in ELSE base

(***************************************************************************)
(* C9.  The contact paragraph is "If helpful, I'm happy to connect via     *)
(* <contact_pref lowercased> to keep momentum going." when contact_pref is *)
(* non-empty and "I'm happy to connect if you have questions to keep       *)
(* momentum going." when it is empty; followed, iff meeting_offer, by a    *)
(* space and the check-in sentence; it ends in exactly one period and is   *)
(* never omitted from the email.                                           *)
(***************************************************************************)
C9_ContactParagraph ==
    Returned =>
        LET ps == Paragraphs(messages.email)
            p == ps[ClosingAt(ps, inputs) - 1]
        IN  /\ p = ExpectedContact(inputs)
            /\ p[Len(p)] = "."
            /\ ~DoubledEnd(p)

\* A contact preference with capitals, and the meeting offer.
C9_Witness ==
    /\ Returned
    /\ inputs.contact_pref = V_In_person
    /\ inputs.meeting_offer
    /\ \E i \in DOMAIN Paragraphs(messages.email) :
           Paragraphs(messages.email)[i] = ExpectedContact(inputs)

\* What holds of every displayed result, whatever the SMS length.
C10_Common ==
    LET nm == strip(inputs.student_name)
        ls == strip(inputs.lesson_covered)
        ps == Paragraphs(messages.email)
    IN  /\ nm # <<>> /\ ls # <<>>
        /\ name(inputs) = nm
        /\ Contains(messages.email, nm) /\ Contains(messages.email, ls)
        /\ OpeningNames(ps[1], nm)
        /\ ~Contains(messages.email, E_we_continued)
        /\ ~Contains(messages.sms, E_Lesson_continued)
        /\ LET head == E_Update_on \o nm \o <<":">> IN
           IF Len(head) <= 317 THEN IsPrefix(head, messages.sms)
           ELSE IsPrefix(SubSeq(head, 1, 317), messages.sms)

(***************************************************************************)
(* C10.  In every run of the app, every email and sms that is displayed    *)
(* contains the non-empty trimmed student name and the non-empty trimmed   *)
(* lesson text: the composer's fallbacks "your student", "we continued     *)
(* building core skills" and "Lesson continued." are not reached through   *)
(* the form, and no displayed output has an empty name in its opening or   *)
(* in "Update on <name>:".                                                 *)
(***************************************************************************)
C10_DisplayedContainNameAndLesson ==
    status = "success" =>
        /\ C10_Common
        /\ Contains(messages.sms, strip(inputs.student_name))
        /\ Contains(messages.sms, strip(inputs.lesson_covered))

(***************************************************************************)
(* C10 as amended.  Every displayed email contains the non-empty trimmed   *)
(* name and lesson text, and so does every displayed sms unless its        *)
(* fragments are longer than 320 characters: then the fragments contain    *)
(* them and the sms is their first 317 characters followed by "...".  The  *)
(* fallbacks are not reached, and no displayed output has an empty name.   *)
(***************************************************************************)
C10_DisplayedContainUnlessTruncated ==
    status = "success" =>
        LET nm == strip(inputs.student_name)
            ls == strip(inputs.lesson_covered)
            raw == sms_joined(inputs)
        IN  /\ C10_Common
            /\ Contains(raw, nm) /\ Contains(raw, ls)
            /\ IF Len(raw) <= 320
               THEN Contains(messages.sms, nm) /\ Contains(messages.sms, ls)
               ELSE messages.sms = SubSeq(raw, 1, 317) \o <<".", ".", ".">>

\* A displayed sms that was cut and no longer holds the whole lesson text.
C10_Witness ==
    /\ status = "success"
    /\ Len(sms_joined(inputs)) > 320
    /\ ~Contains(messages.sms, strip(inputs.lesson_covered))
    /\ Contains(messages.email, strip(inputs.lesson_covered))

=============================================================================
